---------------------------- MODULE Spec2Model ----------------------------
(***************************************************************************)
(* Model of dashboard_app.py: a Streamlit script that loads its source     *)
(* files through memoised loaders, reads the sidebar filter widgets and    *)
(* recomputes every view on each script run.                               *)
(*                                                                         *)
(* A text value is a sequence of one-character strings, so that upper(),   *)
(* strip(), title() and replace() are computed character by character.     *)
(* A date is a day number (the script compares .dt.date values).  A table  *)
(* is a sequence of records, its rows in frame order.  The files hold a    *)
(* region, a day and an hiv_incidence value in every line; no cell is      *)
(* empty, so groupby().last() returns whole rows.                          *)
(*                                                                         *)
(* Line 172 of the script is indented by six columns inside a try block    *)
(* of eight; it is read here as the statement of the try block that its    *)
(* position in the text makes it.                                          *)
(*                                                                         *)
(* One action is one script run: Streamlit runs the script from top to     *)
(* bottom when a session opens and after every widget change.  The two     *)
(* "Select all" checkboxes only set the default of their multiselect, so   *)
(* toggling one is a change of that multiselect to all or to none.         *)
(***************************************************************************)
EXTENDS Integers, Sequences, FiniteSets, TLC

\* ------------------------------------------------------------------ bounds
MaxRows == 2        \* rows of the observation file
MaxDate == 2        \* distinct days that occur in files and date pickers
MaxFeatures == 2    \* features of the boundary file
MaxReads == 2       \* script runs that reach the map section

Dates == 1..MaxDate

\* ------------------------------------------------------------------ text
\* The characters the region names use, in code-point order.
Alphabet ==
    <<" ", "-", "A", "B", "C", "D", "E", "F", "G", "H", "I", "J", "K", "L", "M",
      "N", "O", "P", "Q", "R", "S", "T", "U", "V", "W", "X", "Y", "Z", "a", "b",
      "c", "d", "e", "f", "g", "h", "i", "j", "k", "l", "m", "n", "o", "p", "q",
      "r", "s", "t", "u", "v", "w", "x", "y", "z">>

Chars == {Alphabet[i] : i \in DOMAIN Alphabet}

Ord == [c \in Chars |-> CHOOSE i \in DOMAIN Alphabet : Alphabet[i] = c]

IsUpperChar(c) == Ord[c] \in 3..28
IsLowerChar(c) == Ord[c] \in 29..54
IsCased(c) == IsUpperChar(c) \/ IsLowerChar(c)
IsSpace(c) == c = " "

UpperChar == [c \in Chars |-> IF IsLowerChar(c) THEN Alphabet[Ord[c] - 26] ELSE c]
LowerChar == [c \in Chars |-> IF IsUpperChar(c) THEN Alphabet[Ord[c] + 26] ELSE c]

\* str.upper()
StrUpper(s) == [i \in DOMAIN s |-> UpperChar[s[i]]]

\* str.lower()
StrLower(s) == [i \in DOMAIN s |-> LowerChar[s[i]]]

\* str.strip(): leading and trailing whitespace removed
RECURSIVE LStrip(_)
LStrip(s) == IF s # <<>> /\ IsSpace(Head(s)) THEN LStrip(Tail(s)) ELSE s

RECURSIVE RStrip(_)
RStrip(s) ==
    IF s # <<>> /\ IsSpace(s[Len(s)]) THEN RStrip(SubSeq(s, 1, Len(s) - 1)) ELSE s

StrStrip(s) == RStrip(LStrip(s))

\* str.title(): a cased character is upper-cased when it follows an uncased
\* one (or starts the text) and lower-cased otherwise
StrTitle(s) ==
    [i \in DOMAIN s |->
        IF i = 1 \/ ~IsCased(s[i - 1]) THEN UpperChar[s[i]] ELSE LowerChar[s[i]]]

\* pat occurs in s at position i, ignoring case
MatchAtCI(s, pat, i) ==
    /\ i + Len(pat) - 1 <= Len(s)
    /\ \A k \in DOMAIN pat : UpperChar[s[i + k - 1]] = UpperChar[pat[k]]

\* str.replace(pat, '', case=False): every non-overlapping occurrence of the
\* literal pat, scanned left to right, is removed
RECURSIVE RemoveAllCI(_, _)
RemoveAllCI(s, pat) ==
    IF s = <<>> THEN <<>>
    ELSE IF MatchAtCI(s, pat, 1)
         THEN RemoveAllCI(SubSeq(s, Len(pat) + 1, Len(s)), pat)
         ELSE <<Head(s)>> \o RemoveAllCI(Tail(s), pat)

\* lexicographic order of text by code point, as sorting compares strings
RECURSIVE StrLess(_, _)
StrLess(a, b) ==
    IF b = <<>> THEN FALSE
    ELSE IF a = <<>> THEN TRUE
    ELSE IF Ord[Head(a)] # Ord[Head(b)] THEN Ord[Head(a)] < Ord[Head(b)]
    ELSE StrLess(Tail(a), Tail(b))

StrLeq(a, b) == a = b \/ StrLess(a, b)

\* ------------------------------------------------------------ region names
RegionSuffix == <<" ", "R", "e", "g", "i", "o", "n">>
BrongAhafoOld == <<"B", "r", "o", "n", "g", " ", "A", "h", "a", "f", "o">>
BrongAhafoNew == <<"B", "r", "o", "n", "g", "-", "A", "h", "a", "f", "o">>

\* The ten legacy regions, in the upper-case convention of the loaders.
CanonicalRegions ==
    { <<"A", "S", "H", "A", "N", "T", "I">>,
      <<"B", "R", "O", "N", "G", "-", "A", "H", "A", "F", "O">>,
      <<"C", "E", "N", "T", "R", "A", "L">>,
      <<"E", "A", "S", "T", "E", "R", "N">>,
      <<"G", "R", "E", "A", "T", "E", "R", " ", "A", "C", "C", "R", "A">>,
      <<"N", "O", "R", "T", "H", "E", "R", "N">>,
      <<"U", "P", "P", "E", "R", " ", "E", "A", "S", "T">>,
      <<"U", "P", "P", "E", "R", " ", "W", "E", "S", "T">>,
      <<"V", "O", "L", "T", "A">>,
      <<"W", "E", "S", "T", "E", "R", "N">> }

\* The seven post-2018 subdivisions that collapse onto legacy regions.
AliasNames ==
    { <<"B", "o", "n", "o">>,
      <<"B", "o", "n", "o", " ", "E", "a", "s", "t">>,
      <<"A", "h", "a", "f", "o">>,
      <<"S", "a", "v", "a", "n", "n", "a", "h">>,
      <<"N", "o", "r", "t", "h", " ", "E", "a", "s", "t">>,
      <<"O", "t", "i">>,
      <<"W", "e", "s", "t", "e", "r", "n", " ", "N", "o", "r", "t", "h">> }

\* Every name the alias table knows, in the table's own (title-case) form.
KnownNames == {StrTitle(c) : c \in CanonicalRegions} \cup AliasNames

VoltaName == <<"V", "o", "l", "t", "a">>
AshantiLower == <<"a", "s", "h", "a", "n", "t", "i">>
VoltaRegionName == <<"V", "o", "l", "t", "a", " ", "R", "e", "g", "i", "o", "n">>
AshantiName == <<"A", "s", "h", "a", "n", "t", "i">>
LagosName == <<"L", "a", "g", "o", "s">>

\* --------------------------------------------------------------- sequences
SeqSet(s) == {s[i] : i \in DOMAIN s}

\* the sequences over S of length lo..hi
SeqsUpTo(S, lo, hi) == UNION {[1..n -> S] : n \in lo..hi}

\* first occurrences, in order of appearance (Series.unique())
RECURSIVE Unique(_)
Unique(s) ==
    IF s = <<>> THEN <<>>
    ELSE LET r == Unique(SubSeq(s, 1, Len(s) - 1))
         IN  IF s[Len(s)] \in SeqSet(r) THEN r ELSE Append(r, s[Len(s)])

\* ----------------------------------------------------------------- loaders
\* A line of the observation file: region text, day, hiv_incidence.
\* load_main_data: pd.read_csv gives the rows a RangeIndex (idx); the region
\* column is upper-cased; no row is dropped.
load_main_data(file) ==
    [i \in DOMAIN file |->
        [idx |-> i - 1, region |-> StrUpper(file[i].region),
         date |-> file[i].date, hiv |-> file[i].hiv]]

\* load_geojson: every feature's shapeName is upper-cased; geometry is the
\* feature's own polygon (identified by its position in the file).
load_geojson(file) ==
    [i \in DOMAIN file |-> [shapeName |-> StrUpper(file[i]), geometry |-> i]]

\* load_forecast: the region column is upper-cased.
load_forecast(file) ==
    [i \in DOMAIN file |-> [region |-> StrUpper(file[i]), predicted |-> i]]


\* ------------------------------------------------------------------ frames
\* an absent cell (NaN) is <<>>, a present cell v is <<v>>
Missing == <<>>
Cell(v) == <<v>>

RegionsOf(frame) == {frame[i].region : i \in DOMAIN frame}

MinDateOf(frame) ==
    CHOOSE d \in {frame[i].date : i \in DOMAIN frame} :
        \A j \in DOMAIN frame : d <= frame[j].date

MaxDateOf(frame) ==
    CHOOSE d \in {frame[i].date : i \in DOMAIN frame} :
        \A j \in DOMAIN frame : d >= frame[j].date

\* region keys in ascending order, as groupby sorts its group keys
RECURSIVE SortedRegions(_)
SortedRegions(S) ==
    IF S = {} THEN <<>>
    ELSE LET least == CHOOSE x \in S : \A y \in S : StrLeq(x, y)
         IN  <<least>> \o SortedRegions(S \ {least})

\* (region, date) keys in ascending order
KeyLeq(a, b) == StrLess(a[1], b[1]) \/ (a[1] = b[1] /\ a[2] <= b[2])

RECURSIVE SortedKeys(_)
SortedKeys(S) ==
    IF S = {} THEN <<>>
    ELSE LET least == CHOOSE x \in S : \A y \in S : KeyLeq(x, y)
         IN  <<least>> \o SortedKeys(S \ {least})

\* -------------------------------------------------------------- the filter
disease_opts == {"hiv_incidence", "malaria_incidence", "tb_incidence"}

\* TimeMask with the end of the window excluded
TimeMaskOpenEnd(row, regions, range) ==
    /\ row.region \in regions
    /\ row.date >= range[1]
    /\ row.date < range[2]

\* the boolean mask of df_time, row by row
TimeMask(row, regions, range) ==
    /\ row.region \in regions
    /\ row.date >= range[1]
    /\ row.date <= range[2]

\* df_time = df[mask]: the rows that pass the mask, in frame order
FilterTime(frame, regions, range) ==
    LET Keep(row) == TimeMask(row, regions, range)
    IN  SelectSeq(frame, Keep)

\* SingleDate taking the earliest day instead of the latest
SingleDateEarliest(time) ==
    IF time # <<>>
    THEN LET selected_date == MinDateOf(time)
             Keep(row) == row.date = selected_date
         IN  SelectSeq(time, Keep)
    ELSE time

\* df_single: the rows of df_time on the latest day found in df_time
SingleDate(time) ==
    IF time # <<>>
    THEN LET selected_date == MaxDateOf(time)
             Keep(row) == row.date = selected_date
         IN  SelectSeq(time, Keep)
    ELSE time

\* Section 1: what the time-series section shows
Section1(diseases, time) ==
    IF diseases = {} THEN "warning_select_disease"
    ELSE IF time = <<>> THEN "warning_no_data"
    ELSE "line_chart"

\* Section3Guard without the test of the disease selection
Section3GuardDataOnly(diseases, single) == single # <<>>

\* Section 3: the condition under which the scatter is drawn
Section3Guard(diseases, single) == diseases # {} /\ single # <<>>

\* Section 3: the scatter reads selected_diseases[0], which raises on an
\* empty selection
Section3(diseases, single) ==
    IF Section3Guard(diseases, single)
    THEN IF diseases = {} THEN "IndexError" ELSE "scatter"
    ELSE "warning"

\* ----------------------------------------------------------------- the map
\* latest['region'] = latest['region'].str.strip().str.title()
TitleRegions(frame) ==
    [i \in DOMAIN frame |->
        [frame[i] EXCEPT !.region = StrTitle(StrStrip(frame[i].region))]]

\* latest = df without copy(): latest names the object that df names
CopyRefAlias == "df"

\* the name the script binds to the object that df.copy() returns: a new
\* frame object, distinct from the one df names
CopyRef == "latest"

\* the frame objects after latest = df.copy() and the assignment to
\* latest['region'], which writes into the object that latest names
MapObjects(frame) ==
    LET copied == [df |-> frame, latest |-> frame]
    IN  [copied EXCEPT ![CopyRef] = TitleRegions(@)]

\* gpd.read_file and the two assignments to gdf['shapeName']
ShapeName(raw) ==
    LET cut == StrTitle(StrStrip(RemoveAllCI(raw, RegionSuffix)))
    IN  IF cut = BrongAhafoOld THEN BrongAhafoNew ELSE cut

ReadBoundaries(file) ==
    [i \in DOMAIN file |-> [shapeName |-> ShapeName(file[i]), geometry |-> i]]

\* the rows sort_values('date') may leave last in a region's group: the sort
\* is not stable, so any row of the group's latest day
LastCandidates(frame, region) ==
    {r \in SeqSet(frame) :
        /\ r.region = region
        /\ \A q \in SeqSet(frame) : q.region = region => q.date <= r.date}

\* one choice of last row for each key of keys, in key order
RECURSIVE LastRows(_, _)
LastRows(frame, keys) ==
    IF keys = <<>> THEN {<<>>}
    ELSE {<<[region |-> r.region, date |-> r.date, hiv |-> r.hiv]>> \o rest :
            r \in LastCandidates(frame, Head(keys)),
            rest \in LastRows(frame, Tail(keys))}

\* GroupLast without last(): every row of the frame is kept
GroupLastEveryRow(frame) ==
    {[i \in DOMAIN frame |->
        [region |-> frame[i].region, date |-> frame[i].date, hiv |-> frame[i].hiv]]}

\* groupby('region').last().reset_index(): one row per region key, keys
\* ascending, the frame's index dropped
GroupLast(frame) == LastRows(frame, SortedRegions(RegionsOf(frame)))

\* MergeRow as an inner join: a feature without a match yields no row
MergeRowInner(feature, right) ==
    LET Match(r) == r.region = feature.shapeName
        hits == SelectSeq(right, Match)
    IN  [j \in DOMAIN hits |->
            [shapeName |-> feature.shapeName, geometry |-> feature.geometry,
             region |-> Cell(hits[j].region), hiv |-> Cell(hits[j].hiv)]]

\* one left row of merge(how='left'): a row per match, or one row with the
\* right-hand columns missing; the date column is dropped afterwards
MergeRow(feature, right) ==
    LET Match(r) == r.region = feature.shapeName
        hits == SelectSeq(right, Match)
    IN  IF hits = <<>>
        THEN <<[shapeName |-> feature.shapeName, geometry |-> feature.geometry,
                region |-> Missing, hiv |-> Missing]>>
        ELSE [j \in DOMAIN hits |->
                [shapeName |-> feature.shapeName, geometry |-> feature.geometry,
                 region |-> Cell(hits[j].region), hiv |-> Cell(hits[j].hiv)]]

RECURSIVE MergeLeft(_, _)
MergeLeft(left, right) ==
    IF left = <<>> THEN <<>>
    ELSE MergeRow(Head(left), right) \o MergeLeft(Tail(left), right)

\* ------------------------------------------------------------- the heatmap
RECURSIVE SumHiv(_)
SumHiv(frame) == IF frame = <<>> THEN 0 ELSE Head(frame).hiv + SumHiv(Tail(frame))

\* groupby(['region', 'date'])['hiv_incidence'].mean().reset_index(): the
\* mean is kept as the pair (sum, count)
HeatmapData(frame) ==
    LET keys == SortedKeys({<<frame[i].region, frame[i].date>> : i \in DOMAIN frame})
    IN  [k \in DOMAIN keys |->
            LET In(r) == r.region = keys[k][1] /\ r.date = keys[k][2]
                grp == SelectSeq(frame, In)
            IN  [region |-> keys[k][1], date |-> keys[k][2],
                 hiv_sum |-> SumHiv(grp), hiv_n |-> Len(grp)]]

\* ------------------------------------------------------------------- state
VARIABLES
    csv_file,           \* ghana_infectious_disease_model_dataset_cleaned.csv
    geo_file,           \* GHA_10regions_merged_final.geojson: its shapeNames
    fc_file,            \* hiv_predicted_2030_by_region.csv: its region column
    cached,             \* st.cache_data: which loader has an entry
    cache_main,         \* the entry of load_main_data
    cache_geo,          \* the entry of load_geojson
    cache_fc,           \* the entry of load_forecast
    reads,              \* how often each source file has been read
    status,             \* "init", or how the last script run ended
    selected_regions,   \* the Regions multiselect
    selected_diseases,  \* the Disease multiselect
    date_range,         \* the Date Range input: a tuple of 0 to 2 days
    df, geojson_data, forecast_df, original_regions,
    df_time, df_single, section1, section3,
    latest, gdf, latest_filtered, merged, hiv_heatmap_data

files == <<csv_file, geo_file, fc_file>>
caches == <<cached, cache_main, cache_geo, cache_fc, reads>>
widgets == <<selected_regions, selected_diseases, date_range>>
views == <<df, geojson_data, forecast_df, original_regions, df_time, df_single,
           section1, section3, latest, gdf, latest_filtered, merged,
           hiv_heatmap_data>>
vars == <<files, caches, status, widgets, views>>

Sources == {"main", "boundary", "forecast", "metrics"}

\* the hiv_incidence cell of the i-th line of the observation file
HivOfLine(i) == 3 + 2 * i

\* the observation files of 1..MaxRows lines whose regions come from names
CsvFiles(names) ==
    UNION {{[i \in 1..n |-> [region |-> f[i][1], date |-> f[i][2],
                             hiv |-> HivOfLine(i)]] :
                f \in [1..n -> names \X Dates]} : n \in 1..MaxRows}

CsvNames == {VoltaName, AshantiLower}
MapCsvNames == {VoltaName, BrongAhafoNew}
GeoNames == {VoltaName, VoltaRegionName, AshantiName, BrongAhafoOld}
GeoDefault == <<VoltaRegionName, AshantiName>>
ForecastDefault == <<VoltaName>>

\* a known name, its lower- and upper-case forms and its padded forms, and
\* one name the alias table does not know
NameVariants ==
    UNION {{n, StrLower(n), StrUpper(n), n \o <<" ">>, <<" ">> \o n} :
                n \in KnownNames} \cup {LagosName}

\* what the date input returns for a range: none, one or two days, the
\* second not constrained by the first
DateRanges == SeqsUpTo(Dates, 0, 2)

Fresh ==
    /\ cached = [s \in Sources |-> FALSE]
    /\ cache_main = <<>> /\ cache_geo = <<>> /\ cache_fc = <<>>
    /\ reads = [s \in Sources |-> 0]
    /\ status = "init"
    /\ selected_regions = {} /\ selected_diseases = {} /\ date_range = <<>>
    /\ df = <<>> /\ geojson_data = <<>> /\ forecast_df = <<>>
    /\ original_regions = <<>>
    /\ df_time = <<>> /\ df_single = <<>>
    /\ section1 = "none" /\ section3 = "none"
    /\ latest = <<>> /\ gdf = <<>> /\ latest_filtered = <<>> /\ merged = <<>>
    /\ hiv_heatmap_data = <<>>

Init ==
    /\ csv_file \in CsvFiles(CsvNames)
    /\ geo_file = GeoDefault
    /\ fc_file = ForecastDefault
    /\ Fresh

InitOne ==
    /\ csv_file \in CsvFiles({VoltaName})
    /\ geo_file = GeoDefault
    /\ fc_file = ForecastDefault
    /\ Fresh

InitMap ==
    /\ csv_file \in CsvFiles(MapCsvNames)
    /\ geo_file \in SeqsUpTo(GeoNames, 1, MaxFeatures)
    /\ fc_file = ForecastDefault
    /\ Fresh

InitNorm ==
    /\ \E raw \in NameVariants :
        /\ csv_file = <<[region |-> raw, date |-> 1, hiv |-> HivOfLine(1)]>>
        /\ geo_file = <<raw>>
        /\ fc_file = <<raw>>
    /\ Fresh

\* ---------------------------------------------------------- one script run
\* what a cached loader returns: the entry, or on a miss the loaded file
MainFrame == IF cached["main"] THEN cache_main ELSE load_main_data(csv_file)
GeoData == IF cached["boundary"] THEN cache_geo ELSE load_geojson(geo_file)
ForecastFrame == IF cached["forecast"] THEN cache_fc ELSE load_forecast(fc_file)

RegionColumn(frame) == [i \in DOMAIN frame |-> frame[i].region]

\* the script from top to bottom with the widgets at the given values
ScriptRun(regions, diseases, range) ==
    LET aborted == Len(range) < 2
    IN  /\ cached' = [s \in Sources |-> TRUE]
        /\ cache_main' = MainFrame
        /\ cache_geo' = GeoData
        /\ cache_fc' = ForecastFrame
        /\ reads' = [s \in Sources |->
                        reads[s] + (IF cached[s] THEN 0 ELSE 1)
                                 + (IF s = "boundary" /\ ~aborted THEN 1 ELSE 0)]
        /\ geojson_data' = cache_geo'
        /\ forecast_df' = cache_fc'
        /\ original_regions' = Unique(RegionColumn(cache_main'))
        /\ selected_regions' = regions
        /\ selected_diseases' = diseases
        /\ date_range' = range
        /\ UNCHANGED files
        /\ IF aborted
           THEN /\ status' = "IndexError"
                /\ df' = cache_main'
                /\ df_time' = <<>> /\ df_single' = <<>>
                /\ section1' = "none" /\ section3' = "none"
                /\ latest' = <<>> /\ gdf' = <<>>
                /\ latest_filtered' = <<>> /\ merged' = <<>>
                /\ hiv_heatmap_data' = <<>>
           ELSE /\ df_time' = FilterTime(cache_main', regions, range)
                /\ df_single' = SingleDate(df_time')
                /\ section1' = Section1(diseases, df_time')
                /\ \E objs \in {MapObjects(cache_main')} :
                    /\ latest' = objs[CopyRef]
                    /\ df' = objs.df
                /\ gdf' = ReadBoundaries(geo_file)
                /\ latest_filtered' \in GroupLast(latest')
                /\ merged' = MergeLeft(gdf', latest_filtered')
                /\ section3' = Section3(diseases, df_single')
                /\ status' = IF section3' = "IndexError" THEN "IndexError" ELSE "ok"
                /\ hiv_heatmap_data' =
                        IF section3' = "IndexError" THEN <<>> ELSE HeatmapData(df')

\* script runs are counted up to the bound
CanRun == reads["boundary"] <= MaxReads

\* a browser session opens the page: every widget takes its default
SessionStart ==
    /\ CanRun
    /\ ScriptRun(SeqSet(Unique(RegionColumn(MainFrame))), disease_opts,
                 <<MinDateOf(MainFrame), MaxDateOf(MainFrame)>>)

ChangeRegions ==
    /\ status # "init"
    /\ CanRun
    /\ \E regions \in SUBSET SeqSet(original_regions) :
        /\ regions # selected_regions
        /\ ScriptRun(regions, selected_diseases, date_range)

ChangeDiseases ==
    /\ status # "init"
    /\ CanRun
    /\ \E diseases \in SUBSET disease_opts :
        /\ diseases # selected_diseases
        /\ ScriptRun(selected_regions, diseases, date_range)

ChangeDateRange ==
    /\ status # "init"
    /\ CanRun
    /\ \E range \in DateRanges :
        /\ range # date_range
        /\ ScriptRun(selected_regions, selected_diseases, range)

\* any other widget (map disease, scatter variable, radar model) changes
Rerun ==
    /\ status # "init"
    /\ CanRun
    /\ ScriptRun(selected_regions, selected_diseases, date_range)

Next == SessionStart \/ ChangeRegions \/ ChangeDiseases \/ ChangeDateRange \/ Rerun

\* the region and date filters move, the disease selection stays at its default
NextFilter == SessionStart \/ ChangeRegions \/ ChangeDateRange \/ Rerun

\* the filters stay at their defaults
NextView == SessionStart \/ Rerun

\* every widget, observation files over two region names
Spec == Init /\ [][Next]_vars

\* region and date filters, observation files over two region names
SpecFilter == Init /\ [][NextFilter]_vars

\* every widget, observation files over one region name
SpecSelect == InitOne /\ [][Next]_vars

\* every boundary file of up to MaxFeatures features
SpecMap == InitMap /\ [][NextView]_vars

\* every spelling variant of every known region name, in all three files
SpecNorm == InitNorm /\ [][NextView]_vars

\* ================================================================== claims
Completed == status = "ok"

RowsOf(frame) == SeqSet(frame)

\* the rows of the table that the selection and the window admit
Qualifying(row) ==
    /\ row.region \in selected_regions
    /\ date_range[1] <= row.date
    /\ row.date <= date_range[2]

\* C1: after a completed run, df_time holds exactly the rows of df whose
\* region is selected and whose date d satisfies s <= d <= e, each once.
C1_TimeSeriesExact ==
    Completed =>
        /\ \A row \in RowsOf(df) : row \in RowsOf(df_time) <=> Qualifying(row)
        /\ RowsOf(df_time) \subseteq RowsOf(df)
        /\ Cardinality(RowsOf(df_time)) = Len(df_time)

\* C1 witness: a window of one day keeps the rows dated on both of its
\* bounds and leaves another row of the table out.
C1_Witness ==
    /\ Completed
    /\ date_range[1] = date_range[2]
    /\ \E row \in RowsOf(df_time) : row.date = date_range[1]
    /\ \E row \in RowsOf(df) : row \notin RowsOf(df_time)

\* the latest in-window day of one region
RegionLatest(region) ==
    MaxDateOf(SelectSeq(df_time, LAMBDA row : row.region = region))

\* C2 as stated: every selected region with a qualifying row is in df_single
\* with its own row of its own latest in-window day.
C2_LatestPerRegion ==
    Completed =>
        \A region \in RegionsOf(df_time) :
            \E row \in RowsOf(df_single) :
                row.region = region /\ row.date = RegionLatest(region)

\* C2 amended: df_single holds exactly the rows of df_time dated on the latest
\* day of the whole of df_time; a region is in it exactly when it has a row on
\* that day, and a single selected region yields its own latest rows.  The
\* map's latest_filtered rows carry their region's latest day of the whole
\* table, whatever the selection.
C2_LatestSnapshot ==
    Completed =>
        /\ \A row \in RowsOf(df) :
              row \in RowsOf(df_single) <=>
                  /\ row \in RowsOf(df_time)
                  /\ \A other \in RowsOf(df_time) : other.date <= row.date
        /\ \A region \in RegionsOf(df_time) :
              region \in RegionsOf(df_single) <=>
                  RegionLatest(region) = MaxDateOf(df_time)
        /\ Cardinality(RegionsOf(df_time)) = 1 =>
              \A row \in RowsOf(df_single) : row.date = RegionLatest(row.region)
        /\ \A row \in RowsOf(latest_filtered) :
              \A other \in RowsOf(latest) :
                  other.region = row.region => other.date <= row.date

\* C2 witness: two selected regions have qualifying rows and the one whose
\* latest day is earlier is missing from df_single.
C2_Witness ==
    /\ Completed
    /\ Cardinality(RegionsOf(df_time)) = 2
    /\ Cardinality(RegionsOf(df_single)) = 1

OnePerRegion(frame) ==
    \A i, j \in DOMAIN frame : frame[i].region = frame[j].region => i = j

\* C3 as stated: neither latest view holds two rows of one region.
C3_OneRowPerRegion ==
    Completed => OnePerRegion(df_single) /\ OnePerRegion(latest_filtered)

\* C3 amended: latest_filtered holds one row per region of the table; df_single
\* holds, per region, every row the table has for it on the selected day, so
\* one row per region when no (region, date) pair occurs twice in the table.
C3_OneRowPerKey ==
    Completed =>
        /\ OnePerRegion(latest_filtered)
        /\ RegionsOf(latest_filtered) = RegionsOf(latest)
        /\ \A region \in RegionsOf(df_single) :
              Cardinality({row \in RowsOf(df_single) : row.region = region})
                = Cardinality({row \in RowsOf(df) :
                                  /\ row.region = region
                                  /\ row.date = MaxDateOf(df_time)})
        /\ (\A i, j \in DOMAIN df :
               df[i].region = df[j].region /\ df[i].date = df[j].date => i = j)
              => OnePerRegion(df_single)

\* C3 witness: the table holds two rows of one region and day, df_single
\* holds both and latest_filtered holds one of them.
C3_Witness ==
    /\ Completed
    /\ \E i, j \in DOMAIN df_single :
          i # j /\ df_single[i].region = df_single[j].region
    /\ Len(latest_filtered) = 1

\* the features of the boundary file whose normalised name is name
FeaturesNamed(name) == {i \in DOMAIN gdf : gdf[i].shapeName = name}

\* C6 as stated: every boundary feature is in merged exactly once, so no
\* region name is in it twice, and a feature without an observation row is
\* kept with its polygon and its values missing.
C6_FeatureOncePerRegion ==
    Completed =>
        /\ Len(merged) = Len(gdf)
        /\ \A i \in DOMAIN merged :
              /\ merged[i].geometry = gdf[i].geometry
              /\ merged[i].shapeName = gdf[i].shapeName
        /\ \A i, j \in DOMAIN merged :
              merged[i].shapeName = merged[j].shapeName => i = j

\* C6 amended: every boundary feature is in merged exactly once, in file
\* order and with its polygon; a region name is in merged once per feature
\* that bears it; a feature without an observation row has its values
\* missing, and a feature with one carries that region's latest_filtered row.
C6_FeatureOnce ==
    Completed =>
        /\ Len(merged) = Len(geo_file)
        /\ \A i \in DOMAIN merged :
              /\ merged[i].geometry = i
              /\ merged[i].shapeName = gdf[i].shapeName
              /\ IF merged[i].shapeName \in RegionsOf(latest)
                 THEN \E row \in RowsOf(latest_filtered) :
                        /\ row.region = merged[i].shapeName
                        /\ merged[i].region = Cell(row.region)
                        /\ merged[i].hiv = Cell(row.hiv)
                 ELSE merged[i].region = Missing /\ merged[i].hiv = Missing
        /\ \A i \in DOMAIN merged :
              Cardinality({j \in DOMAIN merged :
                              merged[j].shapeName = merged[i].shapeName})
                = Cardinality(FeaturesNamed(merged[i].shapeName))

\* C6 witness: of two features one has an observation row and carries its
\* value, the other has none and is kept with its value missing.
C6_Witness ==
    /\ Completed
    /\ \E i, j \in DOMAIN merged :
          /\ merged[i].hiv # Missing
          /\ merged[j].hiv = Missing
          /\ merged[j].geometry = j

ValidWindow == Len(date_range) = 2

EmptyWindow == ValidWindow /\ date_range[1] > date_range[2]

Ran == status # "init"

C8_WitnessWindow ==
    /\ Completed
    /\ EmptyWindow
    /\ selected_regions # {}
    /\ df_time = <<>> /\ section1 = "warning_no_data"

\* C10: once loaded, df holds the rows, region keys and values that
\* load_main_data returned, after every run and whatever the views hold.
C10_FrameUnchanged ==
    Ran => df = load_main_data(csv_file) /\ cache_main = load_main_data(csv_file)

\* C10 witness: after a filter change and a further run the re-cased copy
\* differs from df and the time-series view is a proper part of it.
C10_Witness ==
    /\ Completed
    /\ reads["boundary"] > MaxReads
    /\ latest # df
    /\ Len(df_time) < Len(df)
    /\ hiv_heatmap_data # <<>>

\* v differs from the known name n only in letter case or in leading and
\* trailing whitespace
VariantOf(v, n) == StrUpper(StrStrip(v)) = StrUpper(StrStrip(n))

\* the key each loader produces for a file that holds the one name raw
MainKey(raw) ==
    load_main_data(<<[region |-> raw, date |-> 1, hiv |-> HivOfLine(1)]>>)[1].region
BoundaryKey(raw) == load_geojson(<<raw>>)[1].shapeName
ForecastKey(raw) == load_forecast(<<raw>>)[1].region

\* C4: for every known name and every case or whitespace variant of it in the
\* files, each loader produces the key it produces for the known name itself.
C4_VariantsShareKey ==
    Ran =>
        \A n \in KnownNames :
            /\ VariantOf(csv_file[1].region, n) => df[1].region = MainKey(n)
            /\ VariantOf(geo_file[1], n) =>
                  geojson_data[1].shapeName = BoundaryKey(n)
            /\ VariantOf(fc_file[1], n) => forecast_df[1].region = ForecastKey(n)

\* C5: after loading, every region key of the observation rows, the boundary
\* features and the forecast rows is one of the ten canonical regions.
C5_KeysCanonical ==
    Ran =>
        /\ RegionsOf(df) \subseteq CanonicalRegions
        /\ {geojson_data[i].shapeName : i \in DOMAIN geojson_data}
              \subseteq CanonicalRegions
        /\ RegionsOf(forecast_df) \subseteq CanonicalRegions

\* C7: a non-empty time-series view is ordered by (region, date) ascending.
C7_SortedByRegionDate ==
    Completed =>
        \A i, j \in DOMAIN df_time :
            i < j => KeyLeq(<<df_time[i].region, df_time[i].date>>,
                            <<df_time[j].region, df_time[j].date>>)

\* C9: across all script runs each of the three source files is read at
\* most once.
C9_ReadAtMostOnce ==
    \A s \in {"main", "boundary", "forecast"} : reads[s] <= 1

=============================================================================
